---- MODULE Spec2Model ----
(***************************************************************************)
(* FilmMate exposure solver (src/src/utils/exposureCalculator.ts).         *)
(*                                                                         *)
(* Number representation.  TLA+ has integers only, so the JavaScript       *)
(* numbers of the solver are held in fixed point:                          *)
(*   - an aperture or a shutter-speed denominator n is the integer         *)
(*     10 * n (tenths): f/2.8 is 28, 1/8 s is 80, 2 s (0.5) is 5;          *)
(*   - an ISO is the plain integer;                                        *)
(*   - an exposure value or an unrounded delta is in micro-stops           *)
(*     (1 stop = 1000000), a lighting condition's evValue in milli-stops;  *)
(*   - a reported exposureDelta (two decimals) is in centi-stops;          *)
(*   - a balance score is in halves (the shutter score 0.5 is 1);          *)
(*   - a film latitude is in tenths of a stop (1.5 stops is 15).           *)
(***************************************************************************)
EXTENDS Integers, Sequences, FiniteSets, TLC

VARIABLES camera, lens, filmStock, lightingCondition, supplied, outcomes, calls,
          username, appUsername, storedUsername, isLoadingUsername, currentScreen,
          canShowGenerated, showUserSwitchModal, shotLogs, database, loads,
          exposureResult, selectedSettings, editableSettings, showLogForm,
          requests, now, users, submissions, switches, consoleErrors

\* the state of the results screen (GeneratedSettingsScreen)
formVars == <<exposureResult, selectedSettings, editableSettings, showLogForm>>

\* the users table and the username forms submitting to it
accountVars == <<users, submissions>>

\* the state of the application around the solver
appVars == <<username, appUsername, storedUsername, isLoadingUsername, currentScreen,
             canShowGenerated, showUserSwitchModal, shotLogs, database, loads,
             formVars, requests, now, accountVars, switches, consoleErrors>>

vars == <<camera, lens, filmStock, lightingCondition, supplied, outcomes, calls, appVars>>

(***************************************************************************)
(* Bounds of the model.                                                    *)
(***************************************************************************)
MaxShutterSpeeds == 2
MaxApertures == 3
MaxCalls == 2
MaxLoads == 2
MaxSwitches == 1

(***************************************************************************)
(* Input domain: the values the caller's records are drawn from.           *)
(***************************************************************************)
\* the fixed-point image of the number n
Tenths(n) == 10 * n
ApertureValues == {40, 80, 160}
ShutterSpeedValues == {5, 80, 300}
EvValues == {9000, 9010}
FilmStocks ==
  { [iso |-> 100, type |-> "Color", latitude |-> [over |-> 20, under |-> 10]],
    [iso |-> 100, type |-> "Black & White", latitude |-> [over |-> 0, under |-> 0]],
    [iso |-> 400, type |-> "Color", latitude |-> [over |-> 20, under |-> 10]] }

\* null / undefined argument
Null == [null |-> TRUE]

SeqsUpTo(S, n) == UNION { [1..k -> S] : k \in 1..n }

Cameras == { [availableShutterSpeeds |-> s] : s \in SeqsUpTo(ShutterSpeedValues, MaxShutterSpeeds) }
Lenses == { [availableApertures |-> a] : a \in SeqsUpTo(ApertureValues, MaxApertures) }
LightingConditions == { [evValue |-> e] : e \in EvValues }

(***************************************************************************)
(* EXPOSURE_CONSTANTS                                                      *)
(***************************************************************************)
MicroPerStop == 1000 * 1000
TOLERANCE == 2 * MicroPerStop
ISO_BASE_VALUE == 100
PREFERRED_SHUTTER_MIN == 30
PREFERRED_SHUTTER_MAX == 500
ACCEPTABLE_SHUTTER_MIN == 15
ACCEPTABLE_SHUTTER_MAX == 1000

Abs(x) == IF x < 0 THEN -x ELSE x

\* 1000000 * log2(n), rounded to nearest, for the integers in use
Log2Table ==
  (5 :> 2321928) @@
  (10 :> 3321928) @@
  (18 :> 4169925) @@
  (20 :> 4321928) @@
  (28 :> 4807355) @@
  (35 :> 5129283) @@
  (40 :> 5321928) @@
  (56 :> 5807355) @@
  (80 :> 6321928) @@
  (100 :> 6643856) @@
  (110 :> 6781360) @@
  (150 :> 7228819) @@
  (160 :> 7321928) @@
  (200 :> 7643856) @@
  (220 :> 7781360) @@
  (300 :> 8228819) @@
  (400 :> 8643856) @@
  (600 :> 9228819) @@
  (800 :> 9643856) @@
  (1250 :> 10287712) @@
  (2000 :> 10965784) @@
  (2500 :> 11287712) @@
  (5000 :> 12287712) @@
  (10000 :> 13287712)

\* Math.log2(n) in micro-stops
Log2Micro(n) == Log2Table[n]

\* delta.toFixed(2) parsed back: micro-stops to centi-stops, half away from 0
ToFixed2(delta) ==
  IF delta < 0 THEN -((-delta + 5000) \div 10000) ELSE (delta + 5000) \div 10000

\* variant: the denominator is taken for the duration (shutter = shutterSpeed)
calculateExposureValue_ShutterAsDuration(aperture, shutterSpeed, iso) ==
  (2 * (Log2Micro(aperture) - Log2Micro(Tenths(1)))
     - (Log2Micro(shutterSpeed) - Log2Micro(Tenths(1))))
  + (Log2Micro(iso) - Log2Micro(ISO_BASE_VALUE))

\* variant: the ISO term is subtracted
calculateExposureValue_IsoSubtracted(aperture, shutterSpeed, iso) ==
  (2 * (Log2Micro(aperture) - Log2Micro(Tenths(1)))
     + (Log2Micro(shutterSpeed) - Log2Micro(Tenths(1))))
  - (Log2Micro(iso) - Log2Micro(ISO_BASE_VALUE))

\* log2(aperture^2 / shutter) + log2(iso / 100) with shutter = 1 / shutterSpeed
calculateExposureValue(aperture, shutterSpeed, iso) ==
  (2 * (Log2Micro(aperture) - Log2Micro(Tenths(1)))
     + (Log2Micro(shutterSpeed) - Log2Micro(Tenths(1))))
  + (Log2Micro(iso) - Log2Micro(ISO_BASE_VALUE))

\* variant: the comparison is strict
isExposureWithinTolerance_Strict(actualEV, targetEV) ==
  Abs(actualEV - targetEV) < TOLERANCE

\* variant: the comparison is made on the delta rounded to two decimals
isExposureWithinTolerance_Rounded(actualEV, targetEV) ==
  10000 * Abs(ToFixed2(actualEV - targetEV)) <= TOLERANCE

isExposureWithinTolerance(actualEV, targetEV) ==
  Abs(actualEV - targetEV) <= TOLERANCE

\* delta in micro-stops, latitude in tenths of a stop
isExposureWithinLatitude(delta, film) ==
  IF delta > 0
    THEN 10 * delta <= film.latitude.over * MicroPerStop
    ELSE 10 * Abs(delta) <= film.latitude.under * MicroPerStop

(***************************************************************************)
(* Array helpers                                                           *)
(***************************************************************************)
Range(s) == { s[i] : i \in DOMAIN s }

RECURSIVE InsertAscending(_, _)
\* x placed behind every element <= x of the ascending sequence s
InsertAscending(s, x) ==
  IF s = <<>> THEN <<x>>
  ELSE IF x < Head(s) THEN <<x>> \o s
  ELSE <<Head(s)>> \o InsertAscending(Tail(s), x)

RECURSIVE sortAscending(_)
\* availableApertures.sort((a, b) => a - b)
sortAscending(s) ==
  IF s = <<>> THEN <<>>
  ELSE InsertAscending(sortAscending(SubSeq(s, 1, Len(s) - 1)), s[Len(s)])

\* Array.prototype.indexOf: 0-based index of the first occurrence, -1 if none
indexOf(s, x) ==
  IF x \in Range(s)
    THEN (CHOOSE i \in DOMAIN s : s[i] = x /\ \A j \in 1..(i - 1) : s[j] # x) - 1
    ELSE -1

(***************************************************************************)
(* Scoring                                                                 *)
(***************************************************************************)
getApertureScore(aperture, availableApertures) ==
  LET sorted == sortAscending(availableApertures)
      midIndex == Len(sorted) \div 2
      diff == Abs(indexOf(sorted, aperture) - midIndex)
  IN 10 - diff

\* variant: the four band limits are exclusive
getShutterSpeedScore_Exclusive(shutterSpeed) ==
  IF shutterSpeed > Tenths(PREFERRED_SHUTTER_MIN) /\ shutterSpeed < Tenths(PREFERRED_SHUTTER_MAX)
    THEN 2
  ELSE IF shutterSpeed > Tenths(ACCEPTABLE_SHUTTER_MIN) /\ shutterSpeed < Tenths(ACCEPTABLE_SHUTTER_MAX)
    THEN 1
  ELSE 0

\* in halves: 1 is 2, 0.5 is 1
getShutterSpeedScore(shutterSpeed) ==
  IF shutterSpeed >= Tenths(PREFERRED_SHUTTER_MIN) /\ shutterSpeed <= Tenths(PREFERRED_SHUTTER_MAX)
    THEN 2
  ELSE IF shutterSpeed >= Tenths(ACCEPTABLE_SHUTTER_MIN) /\ shutterSpeed <= Tenths(ACCEPTABLE_SHUTTER_MAX)
    THEN 1
  ELSE 0

\* apertureScore + shutterScore, in halves
calculateBalanceScore(settings, l) ==
  2 * getApertureScore(settings.aperture, l.availableApertures)
    + getShutterSpeedScore(settings.shutterSpeed)

isSameSettings(a, b) ==
  a.aperture = b.aperture /\ a.shutterSpeed = b.shutterSpeed /\ a.iso = b.iso

(***************************************************************************)
(* Candidate enumeration                                                   *)
(***************************************************************************)
\* the k-th pair of the loop nest: shutter speeds outside, apertures inside
PairAt(shutterSpeeds, apertures, k) ==
  [shutterSpeed |-> shutterSpeeds[((k - 1) \div Len(apertures)) + 1],
   aperture |-> apertures[((k - 1) % Len(apertures)) + 1]]

\* variant: the two loop variables are stored in each other's field
findValidCombinations_SwappedFields(shutterSpeeds, apertures, iso, targetExposureValue, film) ==
  LET Delta(p) == calculateExposureValue(p.aperture, p.shutterSpeed, iso) - targetExposureValue
      pairs == [k \in 1..(Len(shutterSpeeds) * Len(apertures)) |->
                  PairAt(shutterSpeeds, apertures, k)]
      Kept(p) == isExposureWithinTolerance(
                   calculateExposureValue(p.aperture, p.shutterSpeed, iso), targetExposureValue)
      kept == SelectSeq(pairs, Kept)
  IN [k \in 1..Len(kept) |->
        [aperture |-> kept[k].shutterSpeed,
         shutterSpeed |-> kept[k].aperture,
         iso |-> iso,
         exposureDelta |-> ToFixed2(Delta(kept[k]))]]

\* variant: the result of the latitude check decides whether the pair is kept
findValidCombinations_LatitudeFilter(shutterSpeeds, apertures, iso, targetExposureValue, film) ==
  LET Delta(p) == calculateExposureValue(p.aperture, p.shutterSpeed, iso) - targetExposureValue
      pairs == [k \in 1..(Len(shutterSpeeds) * Len(apertures)) |->
                  PairAt(shutterSpeeds, apertures, k)]
      Kept(p) == /\ isExposureWithinTolerance(
                      calculateExposureValue(p.aperture, p.shutterSpeed, iso), targetExposureValue)
                 /\ isExposureWithinLatitude(Delta(p), film)
      kept == SelectSeq(pairs, Kept)
  IN [k \in 1..Len(kept) |->
        [aperture |-> kept[k].aperture,
         shutterSpeed |-> kept[k].shutterSpeed,
         iso |-> iso,
         exposureDelta |-> ToFixed2(Delta(kept[k]))]]

\* variant: each setting carries the base ISO instead of the film's ISO
findValidCombinations_BaseIso(shutterSpeeds, apertures, iso, targetExposureValue, film) ==
  LET Delta(p) == calculateExposureValue(p.aperture, p.shutterSpeed, iso) - targetExposureValue
      pairs == [k \in 1..(Len(shutterSpeeds) * Len(apertures)) |->
                  PairAt(shutterSpeeds, apertures, k)]
      Kept(p) == isExposureWithinTolerance(
                   calculateExposureValue(p.aperture, p.shutterSpeed, iso), targetExposureValue)
      kept == SelectSeq(pairs, Kept)
  IN [k \in 1..Len(kept) |->
        [aperture |-> kept[k].aperture,
         shutterSpeed |-> kept[k].shutterSpeed,
         iso |-> ISO_BASE_VALUE,
         exposureDelta |-> ToFixed2(Delta(kept[k]))]]

findValidCombinations(shutterSpeeds, apertures, iso, targetExposureValue, film) ==
  LET Delta(p) == calculateExposureValue(p.aperture, p.shutterSpeed, iso) - targetExposureValue
      pairs == [k \in 1..(Len(shutterSpeeds) * Len(apertures)) |->
                  PairAt(shutterSpeeds, apertures, k)]
      Kept(p) == isExposureWithinTolerance(
                   calculateExposureValue(p.aperture, p.shutterSpeed, iso), targetExposureValue)
      kept == SelectSeq(pairs, Kept)
  IN [k \in 1..Len(kept) |->
        [aperture |-> kept[k].aperture,
         shutterSpeed |-> kept[k].shutterSpeed,
         iso |-> iso,
         exposureDelta |-> ToFixed2(Delta(kept[k]))]]

(***************************************************************************)
(* Selection                                                               *)
(***************************************************************************)
RECURSIVE WithScores(_, _)
\* each element with the score the comparator computes for it
WithScores(combinations, l) ==
  IF combinations = <<>> THEN <<>>
  ELSE <<[score |-> calculateBalanceScore(Head(combinations), l),
          settings |-> Head(combinations)]>>
       \o WithScores(Tail(combinations), l)

RECURSIVE WithoutScores(_)
WithoutScores(scored) ==
  IF scored = <<>> THEN <<>>
  ELSE <<Head(scored).settings>> \o WithoutScores(Tail(scored))

RECURSIVE InsertByScore(_, _)
\* x placed behind every element whose score is >= its own (stable)
InsertByScore(s, x) ==
  IF s = <<>> THEN <<x>>
  ELSE IF x.score > Head(s).score THEN <<x>> \o s
  ELSE <<Head(s)>> \o InsertByScore(Tail(s), x)

RECURSIVE SortScored(_)
SortScored(s) ==
  IF s = <<>> THEN <<>>
  ELSE InsertByScore(SortScored(SubSeq(s, 1, Len(s) - 1)), s[Len(s)])

\* variant: a sort that is not stable, equal scores come out in reverse order
sortByBalanceScore_TiesReversed(combinations, l) ==
  WithoutScores(SortScored(WithScores([k \in 1..Len(combinations) |->
                                        combinations[Len(combinations) + 1 - k]], l)))

\* combinations.sort((a, b) => score(b) - score(a)): stable, higher score first
sortByBalanceScore(combinations, l) ==
  WithoutScores(SortScored(WithScores(combinations, l)))

\* variant: the first candidate found is returned, without sorting
selectRecommendedSettings_FirstFound(combinations, l) ==
  combinations[1]

selectRecommendedSettings(combinations, l) ==
  LET sortedCombinations == sortByBalanceScore(combinations, l)
  IN sortedCombinations[1]

Reverse(s) == [k \in 1..Len(s) |-> s[Len(s) + 1 - k]]

\* variant: slice(0, 2)
selectAlternativeSettings_TopTwo(combinations, recommended, l) ==
  LET NotRecommended(combo) == ~isSameSettings(combo, recommended)
      alternatives == SelectSeq(combinations, NotRecommended)
      sortedAlternatives == sortByBalanceScore(alternatives, l)
  IN SubSeq(sortedAlternatives, 1, IF Len(sortedAlternatives) < 2 THEN Len(sortedAlternatives) ELSE 2)

\* variant: the filter compares object identity (combo !== recommended), which
\* removes only the head of the sorted array
selectAlternativeSettings_ByIdentity(combinations, recommended, l) ==
  LET alternatives == Tail(combinations)
      sortedAlternatives == sortByBalanceScore(alternatives, l)
  IN SubSeq(sortedAlternatives, 1, IF Len(sortedAlternatives) < 3 THEN Len(sortedAlternatives) ELSE 3)

\* variant: the comparator is aScore - bScore
selectAlternativeSettings_Ascending(combinations, recommended, l) ==
  LET NotRecommended(combo) == ~isSameSettings(combo, recommended)
      alternatives == SelectSeq(combinations, NotRecommended)
      sortedAlternatives == Reverse(sortByBalanceScore(Reverse(alternatives), l))
  IN SubSeq(sortedAlternatives, 1, IF Len(sortedAlternatives) < 3 THEN Len(sortedAlternatives) ELSE 3)

selectAlternativeSettings(combinations, recommended, l) ==
  LET NotRecommended(combo) == ~isSameSettings(combo, recommended)
      alternatives == SelectSeq(combinations, NotRecommended)
      sortedAlternatives == sortByBalanceScore(alternatives, l)
  IN SubSeq(sortedAlternatives, 1, IF Len(sortedAlternatives) < 3 THEN Len(sortedAlternatives) ELSE 3)

(***************************************************************************)
(* The solver                                                              *)
(***************************************************************************)
MissingInputMessage == "All inputs must be provided"
NoValidCombinationMessage ==
  "No valid exposure combinations found for the given equipment and conditions"

\* TRUE when validateInputs returns, FALSE when it throws
validateInputs(c, l, f, lc) ==
  ~(c = Null \/ l = Null \/ f = Null \/ lc = Null)

Threw(m) == [threw |-> TRUE, message |-> m]

Returned(recommended, alternatives) ==
  [threw |-> FALSE, recommendedSettings |-> recommended, alternativeSettings |-> alternatives]

\* the candidates of a call whose four inputs are present
ValidCombinationsOf(c, l, f, lc) ==
  findValidCombinations(c.availableShutterSpeeds, l.availableApertures, f.iso,
                        1000 * lc.evValue, f)

\* the call once validateInputs has returned
SolveValidated(c, l, f, lc) ==
  LET validCombinations == ValidCombinationsOf(c, l, f, lc)
  IN IF Len(validCombinations) = 0 THEN Threw(NoValidCombinationMessage)
     ELSE LET recommendedSettings == selectRecommendedSettings(validCombinations, l)
              \* Array.prototype.sort has sorted validCombinations in place
              alternativeSettings ==
                selectAlternativeSettings(sortByBalanceScore(validCombinations, l),
                                          recommendedSettings, l)
          IN Returned(recommendedSettings, alternativeSettings)

\* variant: only the camera is validated; reading a property of a missing
\* lens, film stock or lighting condition then throws a TypeError
calculateExposureSettings_CameraOnly(c, l, f, lc) ==
  IF c = Null THEN Threw(MissingInputMessage)
  ELSE IF ~validateInputs(c, l, f, lc) THEN Threw("Cannot read properties of null")
  ELSE SolveValidated(c, l, f, lc)

\* what a call returns or throws
calculateExposureSettings(c, l, f, lc) ==
  IF ~validateInputs(c, l, f, lc) THEN Threw(MissingInputMessage)
  ELSE SolveValidated(c, l, f, lc)

\* The lens record after a call.  getApertureScore sorts the caller's
\* availableApertures array itself; it runs whenever a sort comparator runs,
\* that is when at least two candidates are sorted.
LensAfterCall(c, l, f, lc) ==
  IF validateInputs(c, l, f, lc) /\ Len(ValidCombinationsOf(c, l, f, lc)) >= 2
    THEN [l EXCEPT !.availableApertures = sortAscending(@)]
    ELSE l

(***************************************************************************)
(* State machine: a caller builds the four records (or leaves some out)    *)
(* and calls the solver on those same objects up to MaxCalls times.        *)
(***************************************************************************)
\* null or empty username
NoUsername == ""

\* The application as constructed: initialState of the context, the useState
\* initial values of the provider and of AppContent, no request in flight.
AppConstructed ==
  /\ username = NoUsername
  /\ appUsername = NoUsername
  /\ isLoadingUsername = TRUE
  /\ currentScreen = "settings"
  /\ canShowGenerated = FALSE
  /\ showUserSwitchModal = FALSE
  /\ shotLogs = <<>>
  /\ loads = <<>>
  /\ exposureResult = Null
  /\ selectedSettings = Null
  /\ editableSettings = Null
  /\ showLogForm = FALSE
  /\ requests = <<>>
  /\ now = 1
  /\ submissions = <<>>
  /\ switches = <<>>
  /\ consoleErrors = {}

\* the solver called on its own: nothing stored, the application left alone
SolverOnly ==
  /\ AppConstructed
  /\ storedUsername = NoUsername
  /\ database = {}
  /\ users = {}

Init ==
  /\ SolverOnly
  /\ camera \in Cameras \cup {Null}
  /\ lens \in Lenses \cup {Null}
  /\ filmStock \in FilmStocks \cup {Null}
  /\ lightingCondition \in LightingConditions \cup {Null}
  /\ supplied = [camera |-> camera, lens |-> lens, filmStock |-> filmStock,
                 lightingCondition |-> lightingCondition]
  /\ outcomes = <<>>
  /\ calls = <<>>

\* The i-th element of calls holds the four arguments as they were when the
\* i-th call was made, the i-th element of outcomes what that call produced.
Calculate ==
  /\ Len(outcomes) < MaxCalls
  /\ outcomes' = Append(outcomes,
                        calculateExposureSettings(camera, lens, filmStock, lightingCondition))
  /\ calls' = Append(calls, [camera |-> camera, lens |-> lens, filmStock |-> filmStock,
                             lightingCondition |-> lightingCondition])
  /\ lens' = LensAfterCall(camera, lens, filmStock, lightingCondition)
  /\ UNCHANGED <<camera, filmStock, lightingCondition, supplied, appVars>>

Next == Calculate

Spec == Init /\ [][Next]_vars

(***************************************************************************)
(* A session on the application's equipment: the camera and the lens stay, *)
(* the film stock and the lighting condition are chosen anew between       *)
(* calls.  The records are the catalog of FilmMateContext and the fixtures *)
(* of the solver's test suite.                                             *)
(***************************************************************************)
CanonAE1 ==
  [availableShutterSpeeds |-> <<10000, 5000, 2500, 1250, 600, 300, 150, 80, 40, 20, 10, 5>>]
Sunny16Camera == [availableShutterSpeeds |-> <<2000>>]
CanonFD50mm == [availableApertures |-> <<18, 20, 28, 40, 56, 80, 110, 160, 220>>]
Sunny16Lens == [availableApertures |-> <<160>>]
FujifilmC200 == [iso |-> 200, type |-> "Color", latitude |-> [over |-> 20, under |-> 10]]
KodakPortra400 == [iso |-> 400, type |-> "Color", latitude |-> [over |-> 30, under |-> 15]]
IlfordHP5Plus ==
  [iso |-> 400, type |-> "Black & White", latitude |-> [over |-> 40, under |-> 20]]
KodakPortra800 == [iso |-> 800, type |-> "Color", latitude |-> [over |-> 35, under |-> 15]]
\* { ...mockFilmStock, iso: 800 }
highISOFilm == [iso |-> 800, type |-> "Color", latitude |-> [over |-> 20, under |-> 10]]
BrightSun == [evValue |-> 15000]
OpenShade == [evValue |-> 13000]
HeavyOvercast == [evValue |-> 10000]

SessionCameras == {CanonAE1, Sunny16Camera}
SessionLenses == {CanonFD50mm, Sunny16Lens}
SessionFilmStocks == {FujifilmC200, KodakPortra400, IlfordHP5Plus, KodakPortra800, highISOFilm}
SessionLightingConditions == {BrightSun, OpenShade, HeavyOvercast}

SessionInit ==
  /\ SolverOnly
  /\ camera \in SessionCameras
  /\ lens \in SessionLenses
  /\ filmStock \in SessionFilmStocks
  /\ lightingCondition \in SessionLightingConditions
  /\ supplied = [camera |-> camera, lens |-> lens, filmStock |-> filmStock,
                 lightingCondition |-> lightingCondition]
  /\ outcomes = <<>>
  /\ calls = <<>>

\* another film stock record is passed to the next call
SetFilmStock ==
  \E f \in SessionFilmStocks :
    /\ f # filmStock
    /\ filmStock' = f
    /\ supplied' = [supplied EXCEPT !.filmStock = f]
    /\ UNCHANGED <<camera, lens, lightingCondition, outcomes, calls, appVars>>

\* another lighting condition record is passed to the next call
SetLightingCondition ==
  \E lc \in SessionLightingConditions :
    /\ lc # lightingCondition
    /\ lightingCondition' = lc
    /\ supplied' = [supplied EXCEPT !.lightingCondition = lc]
    /\ UNCHANGED <<camera, lens, filmStock, outcomes, calls, appVars>>

SessionNext == Calculate \/ SetFilmStock \/ SetLightingCondition

SpecSession == SessionInit /\ [][SessionNext]_vars

(***************************************************************************)
(* Calls at the edge of the tolerance: the same equipment and films,       *)
(* metered 0.004 stops beside a whole EV.                                  *)
(***************************************************************************)
BoundaryEvValues == {8996, 9004}
BoundaryLightingConditions == { [evValue |-> e] : e \in BoundaryEvValues }

BoundaryInit ==
  /\ SolverOnly
  /\ camera \in Cameras
  /\ lens \in Lenses
  /\ filmStock \in FilmStocks
  /\ lightingCondition \in BoundaryLightingConditions
  /\ supplied = [camera |-> camera, lens |-> lens, filmStock |-> filmStock,
                 lightingCondition |-> lightingCondition]
  /\ outcomes = <<>>
  /\ calls = <<>>

SpecBoundary == BoundaryInit /\ [][Next]_vars

(***************************************************************************)
(* Calls whose four inputs are all present.                                *)
(***************************************************************************)
PresentInit ==
  /\ SolverOnly
  /\ camera \in Cameras
  /\ lens \in Lenses
  /\ filmStock \in FilmStocks
  /\ lightingCondition \in LightingConditions
  /\ supplied = [camera |-> camera, lens |-> lens, filmStock |-> filmStock,
                 lightingCondition |-> lightingCondition]
  /\ outcomes = <<>>
  /\ calls = <<>>

SpecPresent == PresentInit /\ [][Next]_vars

(***************************************************************************)
(* The application: AppContent (App.tsx) around the FilmMate context       *)
(* (FilmMateContext.tsx) and the remote shot_logs table (database.ts).     *)
(* username is the context's, appUsername AppContent's, storedUsername the *)
(* entry of localStorage.  loads holds the loadShotLogs calls made so far: *)
(* the username each captured and whether its query is still pending.      *)
(***************************************************************************)
Users == {"ann", "bob"}
Screens == {"settings", "generated", "logs"}

\* rows the shot_logs table may hold (rating 0: none); the ShotLog kept by
\* the application has the row's id, timestamp and rating, not its username
ShotLogRows ==
  { [id |-> 1, username |-> "ann", timestamp |-> 1, rating |-> 0],
    [id |-> 2, username |-> "ann", timestamp |-> 2, rating |-> 0],
    [id |-> 3, username |-> "bob", timestamp |-> 1, rating |-> 0] }

RECURSIVE OrderByTimestampDescending(_)
OrderByTimestampDescending(rows) ==
  IF rows = {} THEN <<>>
  ELSE LET latest == CHOOSE r \in rows : \A q \in rows : q.timestamp <= r.timestamp
       IN <<[id |-> latest.id, timestamp |-> latest.timestamp, rating |-> latest.rating]>>
            \o OrderByTimestampDescending(rows \ {latest})

\* variant: the query has no username filter
loadShotLogsFromDB_AllRows(rows, u) ==
  OrderByTimestampDescending(rows)

\* database.ts loadShotLogs: select * where username = u order by timestamp desc
loadShotLogsFromDB(rows, u) ==
  OrderByTimestampDescending({ r \in rows : r.username = u })

\* the equipment and conditions the settings screen offers in this model
AppCameras == {CanonAE1}
AppLenses == {CanonFD50mm}
AppFilmStocks == {FujifilmC200}
AppLightingConditions == {BrightSun}

\* the members of the value the provider passes to useFilmMate()
FilmMateContextValue ==
  {"state", "username", "setUsername", "setCamera", "setLens", "setFilmStock",
   "setLightingCondition", "addShotLog", "updateShotLog", "loadShotLogs",
   "clearSelections", "calculateExposure", "isReadyToCalculate"}

isReadyToCalculate(c, l, f, lc) ==
  c # Null /\ l # Null /\ f # Null /\ lc # Null

\* variant: the solver's error is passed on to the caller
calculateExposure_Rethrows(c, l, f, lc) ==
  IF ~isReadyToCalculate(c, l, f, lc) THEN Null
  ELSE calculateExposureSettings(c, l, f, lc)

\* the context's calculateExposure: null, or the solver's result
calculateExposure(c, l, f, lc) ==
  IF ~isReadyToCalculate(c, l, f, lc) THEN Null
  ELSE LET result == calculateExposureSettings(c, l, f, lc)
       IN IF result.threw THEN Null ELSE result

\* what a calculateExposure call leaves on the console
LoggedBy(c, l, f, lc) ==
  IF isReadyToCalculate(c, l, f, lc) /\ calculateExposureSettings(c, l, f, lc).threw
    THEN {"Error calculating exposure:"}
    ELSE {}

\* the selected lens after a calculateExposure call
SelectedLensAfter(c, l, f, lc) ==
  IF isReadyToCalculate(c, l, f, lc) THEN LensAfterCall(c, l, f, lc) ELSE l

AppInit ==
  /\ AppConstructed
  /\ storedUsername \in Users \cup {NoUsername}
  /\ database \in {{}, ShotLogRows}
  /\ users = Users
  /\ camera = Null
  /\ lens = Null
  /\ filmStock = Null
  /\ lightingCondition = Null
  /\ supplied = [camera |-> Null, lens |-> Null, filmStock |-> Null,
                 lightingCondition |-> Null]
  /\ outcomes = <<>>
  /\ calls = <<>>

\* the mount effect of AppContent: the connection test, then the saved username
InitializeApp ==
  /\ isLoadingUsername
  /\ \E connected \in BOOLEAN :
       IF connected /\ storedUsername # NoUsername
         THEN appUsername' = storedUsername /\ username' = storedUsername
         ELSE UNCHANGED <<appUsername, username>>
  /\ isLoadingUsername' = FALSE
  /\ UNCHANGED <<camera, lens, filmStock, lightingCondition, supplied, outcomes, calls,
                 storedUsername, currentScreen, canShowGenerated, showUserSwitchModal,
                 shotLogs, database, loads, formVars, requests, now, accountVars,
                 switches, consoleErrors>>

\* the username screen is shown while AppContent has no username
handleUsernameSet ==
  /\ ~isLoadingUsername
  /\ appUsername = NoUsername
  /\ \E newUsername \in Users :
       /\ storedUsername' = newUsername
       /\ appUsername' = newUsername
       /\ username' = newUsername
  /\ UNCHANGED <<camera, lens, filmStock, lightingCondition, supplied, outcomes, calls,
                 isLoadingUsername, currentScreen, canShowGenerated, showUserSwitchModal,
                 shotLogs, database, loads, formVars, requests, now, accountVars,
                 switches, consoleErrors>>

MainScreenShown == ~isLoadingUsername /\ appUsername # NoUsername

handleOpenUserSwitch ==
  /\ MainScreenShown
  /\ showUserSwitchModal' = TRUE
  /\ UNCHANGED <<camera, lens, filmStock, lightingCondition, supplied, outcomes, calls,
                 username, appUsername, storedUsername, isLoadingUsername, currentScreen,
                 canShowGenerated, shotLogs, database, loads, formVars, requests, now,
                 accountVars, switches, consoleErrors>>

handleCloseUserSwitch ==
  /\ MainScreenShown
  /\ showUserSwitchModal
  /\ showUserSwitchModal' = FALSE
  /\ UNCHANGED <<camera, lens, filmStock, lightingCondition, supplied, outcomes, calls,
                 username, appUsername, storedUsername, isLoadingUsername, currentScreen,
                 canShowGenerated, shotLogs, database, loads, formVars, requests, now,
                 accountVars, switches, consoleErrors>>

\* AppContent takes clearAllData from useFilmMate(); the value has no such
\* member, so the name is bound to undefined
clearAllData ==
  IF "clearAllData" \in FilmMateContextValue THEN "function" ELSE "undefined"

\* The username form of the switch-user dialog calls handleSwitchUser with
\* the submitted name.  The first statement of its try block calls
\* clearAllData; calling undefined throws a TypeError, the statements behind
\* it are skipped and the catch block writes to the console.  switches
\* holds the arguments of the calls made so far.
handleSwitchUser ==
  /\ MainScreenShown
  /\ showUserSwitchModal
  /\ Len(switches) < MaxSwitches
  /\ clearAllData = "undefined"
  /\ \E newUsername \in Users : switches' = Append(switches, newUsername)
  /\ consoleErrors' = consoleErrors \cup {"Error switching user:"}
  /\ UNCHANGED <<camera, lens, filmStock, lightingCondition, supplied, outcomes, calls,
                 username, appUsername, storedUsername, isLoadingUsername, currentScreen,
                 canShowGenerated, showUserSwitchModal, shotLogs, database, loads,
                 formVars, requests, now, accountVars>>

\* The screen that is rendered after a change of currentScreen.  The results
\* screen starts with an empty form and calls calculateExposure while it
\* renders; its state is gone when another screen replaces it.  The shot-log
\* screen's mount effect calls the context's loadShotLogs, which returns at
\* once without a username and otherwise sends the query for the username
\* it captured.
Mount(screen) ==
  /\ currentScreen' = screen
  /\ selectedSettings' = Null
  /\ editableSettings' = Null
  /\ showLogForm' = FALSE
  /\ IF screen = "generated"
       THEN /\ exposureResult' = calculateExposure(camera, lens, filmStock, lightingCondition)
            /\ lens' = SelectedLensAfter(camera, lens, filmStock, lightingCondition)
            /\ consoleErrors' = consoleErrors
                                  \cup LoggedBy(camera, lens, filmStock, lightingCondition)
       ELSE /\ exposureResult' = Null
            /\ UNCHANGED <<lens, consoleErrors>>
  /\ IF screen = "logs" /\ username # NoUsername
       THEN /\ Len(loads) < MaxLoads
            /\ loads' = Append(loads, [username |-> username, pending |-> TRUE])
       ELSE UNCHANGED loads

\* variant: the Results tab is never disabled
handleScreenChange_TabEnabled ==
  /\ MainScreenShown
  /\ \E screen \in Screens \ {currentScreen} :
       /\ Mount(screen)
       /\ IF screen = "settings"
               /\ isReadyToCalculate(camera, lens, filmStock, lightingCondition)
            THEN canShowGenerated' = TRUE
            ELSE UNCHANGED canShowGenerated
  /\ UNCHANGED <<camera, filmStock, lightingCondition, supplied, outcomes, calls,
                 username, appUsername, storedUsername, isLoadingUsername,
                 showUserSwitchModal, shotLogs, database, requests, now, accountVars,
                 switches>>

\* A tab of the navigation bar; the Results tab is disabled until
\* canShowGenerated.  The settings screen's effect calls onReadyToCalculate
\* when it is shown with all four selected.
handleScreenChange ==
  /\ MainScreenShown
  /\ \E screen \in Screens \ {currentScreen} :
       /\ screen = "generated" => canShowGenerated
       /\ Mount(screen)
       /\ IF screen = "settings"
               /\ isReadyToCalculate(camera, lens, filmStock, lightingCondition)
            THEN canShowGenerated' = TRUE
            ELSE UNCHANGED canShowGenerated
  /\ UNCHANGED <<camera, filmStock, lightingCondition, supplied, outcomes, calls,
                 username, appUsername, storedUsername, isLoadingUsername,
                 showUserSwitchModal, shotLogs, database, requests, now, accountVars,
                 switches>>

\* A select of the settings screen.  After the render the screen's effect
\* calls onReadyToCalculate once all four are selected.
setCamera ==
  /\ MainScreenShown
  /\ currentScreen = "settings"
  /\ \E c \in AppCameras :
       /\ camera' = c
       /\ canShowGenerated' =
            (canShowGenerated \/ isReadyToCalculate(c, lens, filmStock, lightingCondition))
  /\ UNCHANGED <<lens, filmStock, lightingCondition, supplied, outcomes, calls,
                 username, appUsername, storedUsername, isLoadingUsername, currentScreen,
                 showUserSwitchModal, shotLogs, database, loads, formVars, requests, now,
                 accountVars, switches, consoleErrors>>

setLens ==
  /\ MainScreenShown
  /\ currentScreen = "settings"
  /\ \E l \in AppLenses :
       /\ lens' = l
       /\ canShowGenerated' =
            (canShowGenerated \/ isReadyToCalculate(camera, l, filmStock, lightingCondition))
  /\ UNCHANGED <<camera, filmStock, lightingCondition, supplied, outcomes, calls,
                 username, appUsername, storedUsername, isLoadingUsername, currentScreen,
                 showUserSwitchModal, shotLogs, database, loads, formVars, requests, now,
                 accountVars, switches, consoleErrors>>

setFilmStock ==
  /\ MainScreenShown
  /\ currentScreen = "settings"
  /\ \E f \in AppFilmStocks :
       /\ filmStock' = f
       /\ canShowGenerated' =
            (canShowGenerated \/ isReadyToCalculate(camera, lens, f, lightingCondition))
  /\ UNCHANGED <<camera, lens, lightingCondition, supplied, outcomes, calls,
                 username, appUsername, storedUsername, isLoadingUsername, currentScreen,
                 showUserSwitchModal, shotLogs, database, loads, formVars, requests, now,
                 accountVars, switches, consoleErrors>>

setLightingCondition ==
  /\ MainScreenShown
  /\ currentScreen = "settings"
  /\ \E lc \in AppLightingConditions :
       /\ lightingCondition' = lc
       /\ canShowGenerated' =
            (canShowGenerated \/ isReadyToCalculate(camera, lens, filmStock, lc))
  /\ UNCHANGED <<camera, lens, filmStock, supplied, outcomes, calls,
                 username, appUsername, storedUsername, isLoadingUsername, currentScreen,
                 showUserSwitchModal, shotLogs, database, loads, formVars, requests, now,
                 accountVars, switches, consoleErrors>>

\* the Calculate button of the settings screen: onNavigateToResults once all
\* four are selected
handleCalculate ==
  /\ MainScreenShown
  /\ currentScreen = "settings"
  /\ isReadyToCalculate(camera, lens, filmStock, lightingCondition)
  /\ Mount("generated")
  /\ canShowGenerated' = TRUE
  /\ UNCHANGED <<camera, filmStock, lightingCondition, supplied, outcomes, calls,
                 username, appUsername, storedUsername, isLoadingUsername,
                 showUserSwitchModal, shotLogs, database, requests, now, accountVars,
                 switches>>

\* the query of a pending loadShotLogs call returns: LOAD_SHOT_LOGS is dispatched
LoadShotLogsResolved ==
  \E k \in DOMAIN loads :
    /\ loads[k].pending
    /\ shotLogs' = loadShotLogsFromDB(database, loads[k].username)
    /\ loads' = [loads EXCEPT ![k].pending = FALSE]
    /\ UNCHANGED <<camera, lens, filmStock, lightingCondition, supplied, outcomes, calls,
                   username, appUsername, storedUsername, isLoadingUsername, currentScreen,
                   canShowGenerated, showUserSwitchModal, database, formVars, requests,
                   now, accountVars, switches, consoleErrors>>

\* the query fails: loadShotLogs rethrows and the screen swallows the error
LoadShotLogsRejected ==
  \E k \in DOMAIN loads :
    /\ loads[k].pending
    /\ loads' = [loads EXCEPT ![k].pending = FALSE]
    /\ UNCHANGED <<camera, lens, filmStock, lightingCondition, supplied, outcomes, calls,
                   username, appUsername, storedUsername, isLoadingUsername, currentScreen,
                   canShowGenerated, showUserSwitchModal, shotLogs, database, formVars,
                   requests, now, accountVars, switches, consoleErrors>>

AppNext ==
  \/ InitializeApp
  \/ handleUsernameSet
  \/ handleOpenUserSwitch
  \/ handleCloseUserSwitch
  \/ handleSwitchUser
  \/ handleScreenChange
  \/ setCamera
  \/ setLens
  \/ setFilmStock
  \/ setLightingCondition
  \/ handleCalculate
  \/ LoadShotLogsResolved
  \/ LoadShotLogsRejected

SpecApp == AppInit /\ [][AppNext]_vars

(***************************************************************************)
(* The context on its own: a consumer selects equipment and conditions     *)
(* through the reducer and calls calculateExposure at any time.  calls     *)
(* holds the selections of the most recent call, exposureResult what it    *)
(* returned.                                                               *)
(***************************************************************************)
ContextCameras == {CanonAE1, Sunny16Camera}
ContextLenses == {CanonFD50mm, Sunny16Lens}
ContextFilmStocks == {FujifilmC200}
ContextLightingConditions == {BrightSun, HeavyOvercast}

ContextInit ==
  /\ SolverOnly
  /\ camera = Null
  /\ lens = Null
  /\ filmStock = Null
  /\ lightingCondition = Null
  /\ supplied = [camera |-> Null, lens |-> Null, filmStock |-> Null,
                 lightingCondition |-> Null]
  /\ outcomes = <<>>
  /\ calls = <<>>

SET_CAMERA ==
  /\ \E payload \in ContextCameras : camera' = payload
  /\ UNCHANGED <<lens, filmStock, lightingCondition, supplied, outcomes, calls, appVars>>

SET_LENS ==
  /\ \E payload \in ContextLenses : lens' = payload
  /\ UNCHANGED <<camera, filmStock, lightingCondition, supplied, outcomes, calls, appVars>>

SET_FILM_STOCK ==
  /\ \E payload \in ContextFilmStocks : filmStock' = payload
  /\ UNCHANGED <<camera, lens, lightingCondition, supplied, outcomes, calls, appVars>>

SET_LIGHTING_CONDITION ==
  /\ \E payload \in ContextLightingConditions : lightingCondition' = payload
  /\ UNCHANGED <<camera, lens, filmStock, supplied, outcomes, calls, appVars>>

CLEAR_SELECTIONS ==
  /\ camera' = Null
  /\ lens' = Null
  /\ filmStock' = Null
  /\ lightingCondition' = Null
  /\ UNCHANGED <<supplied, outcomes, calls, appVars>>

CalculateExposure ==
  /\ exposureResult' = calculateExposure(camera, lens, filmStock, lightingCondition)
  /\ calls' = <<[camera |-> camera, lens |-> lens, filmStock |-> filmStock,
                 lightingCondition |-> lightingCondition]>>
  /\ lens' = SelectedLensAfter(camera, lens, filmStock, lightingCondition)
  /\ consoleErrors' = consoleErrors \cup LoggedBy(camera, lens, filmStock, lightingCondition)
  /\ UNCHANGED <<camera, filmStock, lightingCondition, supplied, outcomes,
                 username, appUsername, storedUsername, isLoadingUsername, currentScreen,
                 canShowGenerated, showUserSwitchModal, shotLogs, database, loads,
                 selectedSettings, editableSettings, showLogForm, requests, now,
                 accountVars, switches>>

ContextNext ==
  \/ SET_CAMERA
  \/ SET_LENS
  \/ SET_FILM_STOCK
  \/ SET_LIGHTING_CONDITION
  \/ CLEAR_SELECTIONS
  \/ CalculateExposure

SpecContext == ContextInit /\ [][ContextNext]_vars

(***************************************************************************)
(* Shot logging: the context's addShotLog, updateShotLog and loadShotLogs  *)
(* against the shot_logs table, for a user who has signed in.  A ShotLog   *)
(* of the application is [id, timestamp, rating]; an id the application    *)
(* made up (temp-<Date.now()>) is the negative of its time, an id the      *)
(* table generated is positive.  requests holds the addShotLog and         *)
(* updateShotLog calls made so far: the username and the shot-log list     *)
(* each captured, the log it was called with and how its request ended.    *)
(***************************************************************************)
MaxLogs == 2
MaxRequests == 3

Ratings == {5}

\* `temp-${Date.now()}`
TempId(time) == 0 - time

\* the id column is of type UUID: a temp- id is not the text of a uuid
IsUuid(id) == id > 0

\* gen_random_uuid(): an id no row of the table has
NewUuid(rows) ==
  1 + (CHOOSE m \in {0} \cup { r.id : r \in rows } : \A r \in rows : r.id <= m)

\* database.ts saveShotLog: insert one row under the username
saveShotLog(rows, u, shotLog) ==
  rows \cup { [id |-> NewUuid(rows), username |-> u] @@ shotLog }

\* variant: the update matches on the id alone
updateShotLogInDB_ById(rows, u, shotLog) ==
  { IF r.id = shotLog.id
      THEN [r EXCEPT !.timestamp = shotLog.timestamp, !.rating = shotLog.rating]
      ELSE r : r \in rows }

\* database.ts updateShotLog: update ... where id = shotLog.id and username = u
updateShotLogInDB(rows, u, shotLog) ==
  { IF r.id = shotLog.id /\ r.username = u
      THEN [r EXCEPT !.timestamp = shotLog.timestamp, !.rating = shotLog.rating]
      ELSE r : r \in rows }

\* database.ts deleteShotLog: delete ... where id = logId and username = u
deleteShotLog(rows, u, logId) ==
  { r \in rows : ~(r.id = logId /\ r.username = u) }

\* reducer, UPDATE_SHOT_LOG: the log of the same id is replaced
UPDATE_SHOT_LOG(logs, payload) ==
  [k \in DOMAIN logs |-> IF logs[k].id = payload.id THEN payload ELSE logs[k]]

\* everything the shot-logging actions leave alone
logsFrame ==
  <<camera, lens, filmStock, lightingCondition, supplied, outcomes, calls,
    username, appUsername, storedUsername, isLoadingUsername, currentScreen,
    canShowGenerated, showUserSwitchModal, formVars, accountVars, switches, consoleErrors>>

\* the user u has signed in; no request in flight and the log form closed
SignedInAs(u) ==
  /\ username = u
  /\ appUsername = u
  /\ storedUsername = u
  /\ isLoadingUsername = FALSE
  /\ showUserSwitchModal = FALSE
  /\ shotLogs = <<>>
  /\ loads = <<>>
  /\ selectedSettings = Null
  /\ editableSettings = Null
  /\ showLogForm = FALSE
  /\ requests = <<>>
  /\ now = 1
  /\ users = Users
  /\ submissions = <<>>
  /\ switches = <<>>
  /\ consoleErrors = {}

\* the application after the user u has signed in: the settings screen
SignedIn(u) ==
  /\ SignedInAs(u)
  /\ currentScreen = "settings"
  /\ canShowGenerated = FALSE
  /\ exposureResult = Null

\* initialState of the context: no selection, and the solver not called
NothingSelected ==
  /\ camera = Null
  /\ lens = Null
  /\ filmStock = Null
  /\ lightingCondition = Null
  /\ supplied = [camera |-> Null, lens |-> Null, filmStock |-> Null,
                 lightingCondition |-> Null]
  /\ outcomes = <<>>
  /\ calls = <<>>

LogsInit ==
  /\ SignedIn("ann")
  /\ NothingSelected
  /\ database \in {{}, { r \in ShotLogRows : r.username = "bob" }}

\* addShotLog: ADD_SHOT_LOG is dispatched with a temp id, then the insert is
\* sent and awaited
addShotLog ==
  /\ username # NoUsername
  /\ now <= MaxLogs
  /\ Len(requests) < MaxRequests
  /\ LET shotLog == [timestamp |-> now, rating |-> 0]
         shotLogWithId == [id |-> TempId(now), timestamp |-> now, rating |-> 0]
     IN /\ shotLogs' = <<shotLogWithId>> \o shotLogs
        /\ requests' = Append(requests,
                              [op |-> "add", username |-> username, snapshot |-> shotLogs,
                               shotLog |-> shotLog, status |-> "pending"])
  /\ now' = now + 1
  /\ UNCHANGED <<logsFrame, database, loads>>

\* the insert succeeded
SaveShotLogResolved ==
  \E k \in DOMAIN requests :
    /\ requests[k].op = "add"
    /\ requests[k].status = "pending"
    /\ database' = saveShotLog(database, requests[k].username, requests[k].shotLog)
    /\ requests' = [requests EXCEPT ![k].status = "done"]
    /\ UNCHANGED <<logsFrame, shotLogs, loads, now>>

\* the insert failed: LOAD_SHOT_LOGS is dispatched with the list the call
\* captured, and the error is thrown on
SaveShotLogRejected ==
  \E k \in DOMAIN requests :
    /\ requests[k].op = "add"
    /\ requests[k].status = "pending"
    /\ shotLogs' = requests[k].snapshot
    /\ requests' = [requests EXCEPT ![k].status = "failed"]
    /\ UNCHANGED <<logsFrame, database, loads, now>>

\* A star of a log on the shot-log screen: handleRatingChange finds the log
\* in the list and calls updateShotLog with the new rating; UPDATE_SHOT_LOG
\* is dispatched, then the update is sent and awaited.
handleRatingChange ==
  /\ username # NoUsername
  /\ Len(requests) < MaxRequests
  /\ \E k \in DOMAIN shotLogs, rating \in Ratings :
       LET newLog == [shotLogs[k] EXCEPT !.rating = rating]
       IN /\ shotLogs' = UPDATE_SHOT_LOG(shotLogs, newLog)
          /\ requests' = Append(requests,
                                [op |-> "update", username |-> username,
                                 snapshot |-> shotLogs, shotLog |-> newLog,
                                 status |-> "pending"])
  /\ UNCHANGED <<logsFrame, database, loads, now>>

\* the update succeeded: its id was the text of a uuid (it may have matched
\* no row)
UpdateShotLogResolved ==
  \E k \in DOMAIN requests :
    /\ requests[k].op = "update"
    /\ requests[k].status = "pending"
    /\ IsUuid(requests[k].shotLog.id)
    /\ database' = updateShotLogInDB(database, requests[k].username, requests[k].shotLog)
    /\ requests' = [requests EXCEPT ![k].status = "done"]
    /\ UNCHANGED <<logsFrame, shotLogs, loads, now>>

\* the update failed: LOAD_SHOT_LOGS is dispatched with the list the call
\* captured, and the error is thrown on
UpdateShotLogRejected ==
  \E k \in DOMAIN requests :
    /\ requests[k].op = "update"
    /\ requests[k].status = "pending"
    /\ shotLogs' = requests[k].snapshot
    /\ requests' = [requests EXCEPT ![k].status = "failed"]
    /\ UNCHANGED <<logsFrame, database, loads, now>>

\* the shot-log screen is mounted: loadShotLogs sends its query
loadShotLogs ==
  /\ username # NoUsername
  /\ Len(loads) < MaxLoads
  /\ loads' = Append(loads, [username |-> username, pending |-> TRUE])
  /\ UNCHANGED <<logsFrame, shotLogs, database, requests, now>>

LogsNext ==
  \/ addShotLog
  \/ SaveShotLogResolved
  \/ SaveShotLogRejected
  \/ handleRatingChange
  \/ UpdateShotLogResolved
  \/ UpdateShotLogRejected
  \/ loadShotLogs
  \/ LoadShotLogsResolved
  \/ LoadShotLogsRejected

SpecLogs == LogsInit /\ [][LogsNext]_vars

(***************************************************************************)
(* The persistence functions of database.ts on their own: a caller signed  *)
(* in as username issues saveShotLog, updateShotLog, deleteShotLog and     *)
(* loadShotLogs with shot logs and ids of its choosing, the ids of other   *)
(* users' rows included.  shotLogs holds what the last loadShotLogs        *)
(* returned.                                                               *)
(***************************************************************************)
\* the shot logs a caller may pass
StoreShotLogs ==
  [id : { r.id : r \in ShotLogRows }, timestamp : { r.timestamp : r \in ShotLogRows },
   rating : Ratings]

StoreInit ==
  /\ \E u \in Users : SignedIn(u)
  /\ NothingSelected
  /\ database \in SUBSET ShotLogRows

SaveShotLog ==
  /\ now <= MaxLogs
  /\ database' = saveShotLog(database, username, [timestamp |-> now, rating |-> 0])
  /\ now' = now + 1
  /\ UNCHANGED <<logsFrame, shotLogs, loads, requests>>

UpdateShotLog ==
  /\ \E shotLog \in StoreShotLogs :
       database' = updateShotLogInDB(database, username, shotLog)
  /\ UNCHANGED <<logsFrame, shotLogs, loads, requests, now>>

DeleteShotLog ==
  /\ \E r \in ShotLogRows : database' = deleteShotLog(database, username, r.id)
  /\ UNCHANGED <<logsFrame, shotLogs, loads, requests, now>>

LoadShotLogs ==
  /\ shotLogs' = loadShotLogsFromDB(database, username)
  /\ UNCHANGED <<logsFrame, database, loads, requests, now>>

StoreNext ==
  \/ SaveShotLog
  \/ UpdateShotLog
  \/ DeleteShotLog
  \/ LoadShotLogs

SpecStore == StoreInit /\ [][StoreNext]_vars

(***************************************************************************)
(* The username screen against the users table.  Every submission is the   *)
(* handleSubmit of one client showing the screen; several clients share    *)
(* the table.  A submission is "checking" until checkUsernameExists has    *)
(* answered, "creating" until createUsername has answered, "set" once      *)
(* onUsernameSet has been called with its name and "error" once the catch  *)
(* block has put up its message.  The store answers every request.         *)
(***************************************************************************)
MaxClients == 3

\* the users table as the clients find it
UsersTableInit ==
  /\ username = NoUsername
  /\ appUsername = NoUsername
  /\ storedUsername = NoUsername
  /\ isLoadingUsername = FALSE
  /\ currentScreen = "settings"
  /\ canShowGenerated = FALSE
  /\ showUserSwitchModal = FALSE
  /\ shotLogs = <<>>
  /\ loads = <<>>
  /\ exposureResult = Null
  /\ selectedSettings = Null
  /\ editableSettings = Null
  /\ showLogForm = FALSE
  /\ requests = <<>>
  /\ now = 1
  /\ users \in SUBSET Users
  /\ submissions = <<>>
  /\ switches = <<>>
  /\ consoleErrors = {}
  /\ NothingSelected
  /\ database = {}

usernameFrame ==
  <<camera, lens, filmStock, lightingCondition, supplied, outcomes, calls,
    username, appUsername, storedUsername, isLoadingUsername, currentScreen,
    canShowGenerated, showUserSwitchModal, shotLogs, database, loads, formVars,
    requests, now, switches, consoleErrors>>

\* checkUsernameExists: a row with this username is in the table
checkUsernameExists(table, name) == name \in table

\* handleSubmit up to its first await: a valid name, the check is sent
handleSubmit ==
  /\ Len(submissions) < MaxClients
  /\ \E name \in Users :
       submissions' = Append(submissions, [username |-> name, stage |-> "checking"])
  /\ UNCHANGED <<usernameFrame, users>>

\* the check answers: an existing name is set at once, a new one is created
CheckUsernameResolved ==
  /\ \E k \in DOMAIN submissions :
       /\ submissions[k].stage = "checking"
       /\ submissions' =
            [submissions EXCEPT ![k].stage =
               IF checkUsernameExists(users, submissions[k].username)
                 THEN "set" ELSE "creating"]
  /\ UNCHANGED <<usernameFrame, users>>

\* createUsername inserts the row, then onUsernameSet is called
CreateUsernameResolved ==
  /\ \E k \in DOMAIN submissions :
       /\ submissions[k].stage = "creating"
       /\ submissions[k].username \notin users
       /\ users' = users \cup {submissions[k].username}
       /\ submissions' = [submissions EXCEPT ![k].stage = "set"]
  /\ UNCHANGED usernameFrame

\* the insert violates the primary key of users: createUsername throws and
\* the catch block of handleSubmit shows its message
CreateUsernameRejected ==
  /\ \E k \in DOMAIN submissions :
       /\ submissions[k].stage = "creating"
       /\ submissions[k].username \in users
       /\ submissions' = [submissions EXCEPT ![k].stage = "error"]
  /\ UNCHANGED <<usernameFrame, users>>

UsernameNext ==
  \/ handleSubmit
  \/ CheckUsernameResolved
  \/ CreateUsernameResolved
  \/ CreateUsernameRejected

SpecUsername == UsersTableInit /\ [][UsernameNext]_vars

(***************************************************************************)
(* The log form of the results screen (GeneratedSettingsScreen).  With     *)
(* the results open, the user picks one of the cards                       *)
(* (handleSelectSettings), edits aperture and shutter speed in the two     *)
(* selects of the form and saves.  Every state change renders the screen   *)
(* again, and every render calls calculateExposure().  A request of        *)
(* handleLogShot carries the CreateShotLog it passed to addShotLog.        *)
(***************************************************************************)
MaxSaves == 1

\* the settings of a result, the recommended one first
SettingsOf(o) == <<o.recommendedSettings>> \o o.alternativeSettings

\* the equipment and conditions selected when the results are opened
FormCameras == { [availableShutterSpeeds |-> <<300, 80>>] }
FormLenses == { [availableApertures |-> <<40, 80>>] }
FormFilmStocks == { [iso |-> 100, type |-> "Color", latitude |-> [over |-> 20, under |-> 10]] }
FormLightingConditions == { [evValue |-> 9000] }

\* the screen's own helper: log2(aperture^2 / (1 / shutterSpeed)) + log2(iso / 100)
\* - targetEV, through toFixed(2)
calculateExposureDelta(aperture, shutterSpeed, iso, targetEV) ==
  ToFixed2((2 * (Log2Micro(aperture) - Log2Micro(Tenths(1)))
              + (Log2Micro(shutterSpeed) - Log2Micro(Tenths(1))))
             + (Log2Micro(iso) - Log2Micro(ISO_BASE_VALUE))
             - 1000 * targetEV)

\* a render of the screen: const exposureResult = calculateExposure()
Render ==
  /\ exposureResult' = calculateExposure(camera, lens, filmStock, lightingCondition)
  /\ lens' = SelectedLensAfter(camera, lens, filmStock, lightingCondition)
  /\ consoleErrors' = consoleErrors \cup LoggedBy(camera, lens, filmStock, lightingCondition)

ResultsShown ==
  /\ MainScreenShown
  /\ currentScreen = "generated"
  /\ exposureResult # Null

LogFormShown ==
  /\ ResultsShown
  /\ showLogForm
  /\ selectedSettings # Null
  /\ editableSettings # Null

formFrame ==
  <<camera, filmStock, lightingCondition, supplied, outcomes, calls, username,
    appUsername, storedUsername, isLoadingUsername, currentScreen, canShowGenerated,
    showUserSwitchModal, loads, accountVars, switches>>

\* the results screen as handleCalculate has just mounted it
LogFormInit ==
  /\ SignedInAs("ann")
  /\ database = {}
  /\ currentScreen = "generated"
  /\ canShowGenerated = TRUE
  /\ camera \in FormCameras
  /\ lens \in FormLenses
  /\ filmStock \in FormFilmStocks
  /\ lightingCondition \in FormLightingConditions
  /\ exposureResult = calculateExposure(camera, lens, filmStock, lightingCondition)
  /\ supplied = [camera |-> Null, lens |-> Null, filmStock |-> Null,
                 lightingCondition |-> Null]
  /\ outcomes = <<>>
  /\ calls = <<>>

\* a card of the results is clicked
handleSelectSettings ==
  /\ ResultsShown
  /\ \E settings \in Range(SettingsOf(exposureResult)) :
       /\ selectedSettings' = settings
       /\ editableSettings' = settings
  /\ showLogForm' = TRUE
  /\ Render
  /\ UNCHANGED <<formFrame, shotLogs, database, requests, now>>

\* variant: the edited aperture is written into the picked setting as well
handleApertureChange_EditsPicked ==
  /\ LogFormShown
  /\ lightingCondition # Null
  /\ \E newAperture \in Range(lens.availableApertures) \ {editableSettings.aperture} :
       /\ editableSettings' =
            [editableSettings EXCEPT
               !.aperture = newAperture,
               !.exposureDelta = calculateExposureDelta(newAperture, editableSettings.shutterSpeed,
                                   editableSettings.iso, lightingCondition.evValue)]
       /\ selectedSettings' = [selectedSettings EXCEPT !.aperture = newAperture]
  /\ Render
  /\ UNCHANGED <<formFrame, showLogForm, shotLogs, database, requests, now>>

\* the aperture select of the form: an option of the selected lens
handleApertureChange ==
  /\ LogFormShown
  /\ lightingCondition # Null
  /\ \E newAperture \in Range(lens.availableApertures) \ {editableSettings.aperture} :
       editableSettings' =
         [editableSettings EXCEPT
            !.aperture = newAperture,
            !.exposureDelta = calculateExposureDelta(newAperture, editableSettings.shutterSpeed,
                                editableSettings.iso, lightingCondition.evValue)]
  /\ Render
  /\ UNCHANGED <<formFrame, selectedSettings, showLogForm, shotLogs, database, requests, now>>

\* the shutter speed select of the form: an option of the selected camera
handleShutterSpeedChange ==
  /\ LogFormShown
  /\ lightingCondition # Null
  /\ \E newShutterSpeed \in Range(camera.availableShutterSpeeds)
                              \ {editableSettings.shutterSpeed} :
       editableSettings' =
         [editableSettings EXCEPT
            !.shutterSpeed = newShutterSpeed,
            !.exposureDelta = calculateExposureDelta(editableSettings.aperture, newShutterSpeed,
                                editableSettings.iso, lightingCondition.evValue)]
  /\ Render
  /\ UNCHANGED <<formFrame, selectedSettings, showLogForm, shotLogs, database, requests, now>>

\* the Cancel button of the form
handleCancel ==
  /\ LogFormShown
  /\ showLogForm' = FALSE
  /\ selectedSettings' = Null
  /\ editableSettings' = Null
  /\ Render
  /\ UNCHANGED <<formFrame, shotLogs, database, requests, now>>

\* Save Shot: the CreateShotLog is built and passed to addShotLog, which
\* dispatches ADD_SHOT_LOG and sends the insert
handleLogShot ==
  /\ LogFormShown
  /\ camera # Null /\ lens # Null /\ filmStock # Null /\ lightingCondition # Null
  /\ username # NoUsername
  /\ Len(requests) < MaxSaves
  /\ LET shotLog == [timestamp |-> now,
                     rating |-> 0,
                     recommendedSettings |-> exposureResult.recommendedSettings,
                     alternativeSettings |-> exposureResult.alternativeSettings,
                     originalSettings |-> selectedSettings,
                     selectedSettings |-> editableSettings]
     IN /\ shotLogs' = <<[id |-> TempId(now)] @@ shotLog>> \o shotLogs
        /\ requests' = Append(requests,
                              [op |-> "add", username |-> username, snapshot |-> shotLogs,
                               shotLog |-> shotLog, status |-> "pending"])
  /\ now' = now + 1
  /\ Render
  /\ UNCHANGED <<formFrame, formVars, database>>

\* the insert succeeded: handleLogShot goes on and resets the form
LogShotResolved ==
  /\ \E k \in DOMAIN requests :
       /\ requests[k].status = "pending"
       /\ database' = saveShotLog(database, requests[k].username, requests[k].shotLog)
       /\ requests' = [requests EXCEPT ![k].status = "done"]
  /\ showLogForm' = FALSE
  /\ selectedSettings' = Null
  /\ editableSettings' = Null
  /\ IF currentScreen = "generated"
       THEN Render
       ELSE UNCHANGED <<exposureResult, lens, consoleErrors>>
  /\ UNCHANGED <<formFrame, shotLogs, now>>

\* the insert failed: addShotLog reverts the list and throws, handleLogShot
\* logs the error and leaves the form as it is
LogShotRejected ==
  /\ \E k \in DOMAIN requests :
       /\ requests[k].status = "pending"
       /\ shotLogs' = requests[k].snapshot
       /\ requests' = [requests EXCEPT ![k].status = "failed"]
  /\ consoleErrors' = consoleErrors \cup {"Failed to save shot log:"}
       \cup (IF currentScreen = "generated"
               THEN LoggedBy(camera, lens, filmStock, lightingCondition) ELSE {})
  /\ IF currentScreen = "generated"
       THEN /\ exposureResult' = calculateExposure(camera, lens, filmStock, lightingCondition)
            /\ lens' = SelectedLensAfter(camera, lens, filmStock, lightingCondition)
       ELSE UNCHANGED <<exposureResult, lens>>
  /\ UNCHANGED <<formFrame, selectedSettings, editableSettings, showLogForm, database, now>>

LogFormNext ==
  \/ handleSelectSettings
  \/ handleApertureChange
  \/ handleShutterSpeedChange
  \/ handleCancel
  \/ handleLogShot
  \/ LogShotResolved
  \/ LogShotRejected

SpecLogForm == LogFormInit /\ [][LogFormNext]_vars

(***************************************************************************)
(* Vocabulary of the properties, computed from the records as supplied     *)
(***************************************************************************)
AllPresent ==
  /\ supplied.camera # Null
  /\ supplied.lens # Null
  /\ supplied.filmStock # Null
  /\ supplied.lightingCondition # Null

ReturnedCalls == { i \in DOMAIN outcomes : ~outcomes[i].threw }

\* <<i, j>>: i-th shutter speed of the camera with j-th aperture of the lens
PairIndices ==
  (DOMAIN supplied.camera.availableShutterSpeeds) \X (DOMAIN supplied.lens.availableApertures)

PairSetting(p) ==
  [aperture |-> supplied.lens.availableApertures[p[2]],
   shutterSpeed |-> supplied.camera.availableShutterSpeeds[p[1]],
   iso |-> supplied.filmStock.iso]

\* unrounded delta of a setting against the supplied lighting condition
DeltaOf(s) ==
  calculateExposureValue(s.aperture, s.shutterSpeed, s.iso)
    - 1000 * supplied.lightingCondition.evValue

InTolerance == { p \in PairIndices : Abs(DeltaOf(PairSetting(p))) <= TOLERANCE }

ScoreOf(s) == calculateBalanceScore(s, supplied.lens)

Min(a, b) == IF a < b THEN a ELSE b

(***************************************************************************)
(* C1: every setting of a successful call (recommended and alternatives)   *)
(* has its aperture among the lens's apertures and its shutter speed       *)
(* among the camera's shutter speeds.                                      *)
(***************************************************************************)
DomainContainment ==
  \A i \in ReturnedCalls :
    \A k \in DOMAIN SettingsOf(outcomes[i]) :
      /\ SettingsOf(outcomes[i])[k].aperture \in Range(supplied.lens.availableApertures)
      /\ SettingsOf(outcomes[i])[k].shutterSpeed
           \in Range(supplied.camera.availableShutterSpeeds)

DomainContainmentWitness ==
  \E i \in ReturnedCalls : Len(outcomes[i].alternativeSettings) = 3

(***************************************************************************)
(* C2: repeated calls on the same records return identical results (same   *)
(* recommended setting, same alternatives in the same order).              *)
(***************************************************************************)
RepeatedCallsAgree ==
  \A i, j \in DOMAIN outcomes : outcomes[i] = outcomes[j]

(***************************************************************************)
(* C3: after a call has returned or thrown, the four input records are as  *)
(* the caller built them: same elements in the same order.                 *)
(***************************************************************************)
InputsNotMutated ==
  Len(outcomes) >= 1 =>
    /\ camera = supplied.camera
    /\ lens = supplied.lens
    /\ filmStock = supplied.filmStock
    /\ lightingCondition = supplied.lightingCondition

(***************************************************************************)
(* C4: when any of the four arguments is missing the call throws the       *)
(* missing-input error and carries no result, whatever the other three.    *)
(***************************************************************************)
MissingInputFails ==
  \A i \in DOMAIN outcomes :
    ~AllPresent => outcomes[i] = Threw(MissingInputMessage)

MissingInputFailsWitness ==
  /\ Len(outcomes) >= 1
  /\ supplied.lightingCondition = Null
  /\ supplied.camera # Null /\ supplied.lens # Null /\ supplied.filmStock # Null

(***************************************************************************)
(* C5: with all four inputs present the call returns a result exactly when *)
(* some (shutter speed, aperture) pair is within 2.0 stops; otherwise it   *)
(* throws the no-valid-combination error, which is not the missing-input   *)
(* error, and carries no result.                                           *)
(***************************************************************************)
ResultIffCandidate ==
  \A i \in DOMAIN outcomes :
    AllPresent =>
      /\ (~outcomes[i].threw) <=> (InTolerance # {})
      /\ InTolerance = {} =>
           /\ outcomes[i] = Threw(NoValidCombinationMessage)
           /\ outcomes[i] # Threw(MissingInputMessage)

ResultIffCandidateWitness ==
  /\ Len(outcomes) >= 1
  /\ AllPresent
  /\ InTolerance = {}
  /\ Cardinality(PairIndices) >= 4

(***************************************************************************)
(* C6: the tolerance is inclusive at exactly 2.0 stops: a pair whose       *)
(* unrounded |delta| is 2.0 makes the call succeed and is returned when    *)
(* the result has room for every candidate; no returned setting has an     *)
(* unrounded |delta| above 2.0.                                            *)
(***************************************************************************)
ToleranceInclusive ==
  /\ \A i \in ReturnedCalls :
       \A k \in DOMAIN SettingsOf(outcomes[i]) :
         Abs(DeltaOf(SettingsOf(outcomes[i])[k])) <= TOLERANCE
  /\ \A i \in DOMAIN outcomes :
       AllPresent =>
         \A p \in PairIndices :
           Abs(DeltaOf(PairSetting(p))) = TOLERANCE =>
             /\ ~outcomes[i].threw
             /\ Cardinality(InTolerance) <= 4 =>
                  \E k \in DOMAIN SettingsOf(outcomes[i]) :
                    isSameSettings(SettingsOf(outcomes[i])[k], PairSetting(p))

ToleranceInclusiveWitness ==
  /\ AllPresent
  /\ Cardinality(PairIndices) = 1
  /\ Abs(DeltaOf(PairSetting(<<1, 1>>))) = TOLERANCE
  /\ 1 \in ReturnedCalls
  /\ isSameSettings(outcomes[1].recommendedSettings, PairSetting(<<1, 1>>))

(***************************************************************************)
(* C7: the recommended setting scores at least as high as every pair of    *)
(* the whole product camera x lens that is within 2.0 stops.               *)
(***************************************************************************)
RecommendedIsBest ==
  \A i \in ReturnedCalls :
    \A p \in InTolerance :
      ScoreOf(outcomes[i].recommendedSettings) >= ScoreOf(PairSetting(p))

\* the best pair is neither the first nor on the first shutter speed
RecommendedIsBestWitness ==
  /\ 1 \in ReturnedCalls
  /\ \E p \in InTolerance :
       /\ p[1] = 1
       /\ ScoreOf(PairSetting(p)) < ScoreOf(outcomes[1].recommendedSettings)
  /\ \A p \in InTolerance :
       isSameSettings(PairSetting(p), outcomes[1].recommendedSettings) => p[1] > 1

(***************************************************************************)
(* C8: a result has min(3, k) alternatives, k the number of candidates     *)
(* within tolerance whose (aperture, shutterSpeed, iso) differs from the   *)
(* recommended one; so between 0 and 3, and exactly 3 when at least 4      *)
(* distinct pairs are within tolerance.                                    *)
(***************************************************************************)
OtherCandidates(recommended) ==
  { p \in InTolerance : ~isSameSettings(PairSetting(p), recommended) }

DistinctInTolerance == { PairSetting(p) : p \in InTolerance }

AlternativesCount ==
  \A i \in ReturnedCalls :
    LET n == Len(outcomes[i].alternativeSettings)
        k == Cardinality(OtherCandidates(outcomes[i].recommendedSettings))
    IN /\ n \in 0..3
       /\ n = Min(3, k)
       /\ Cardinality(DistinctInTolerance) >= 4 => n = 3

AlternativesCountWitness ==
  /\ 1 \in ReturnedCalls
  /\ Cardinality(DistinctInTolerance) >= 4
  /\ Cardinality(OtherCandidates(outcomes[1].recommendedSettings)) > 3
  /\ Len(outcomes[1].alternativeSettings) = 3

(***************************************************************************)
(* C9: no alternative has the recommended (aperture, shutterSpeed, iso),   *)
(* also when the camera's or the lens's list repeats a value.              *)
(***************************************************************************)
NoRecommendedAmongAlternatives ==
  \A i \in ReturnedCalls :
    \A k \in DOMAIN outcomes[i].alternativeSettings :
      ~isSameSettings(outcomes[i].alternativeSettings[k], outcomes[i].recommendedSettings)

\* the recommended pair occurs twice among the candidates
NoRecommendedAmongAlternativesWitness ==
  /\ 1 \in ReturnedCalls
  /\ outcomes[1].alternativeSettings # <<>>
  /\ \E p, q \in InTolerance :
       /\ p # q
       /\ isSameSettings(PairSetting(p), outcomes[1].recommendedSettings)
       /\ isSameSettings(PairSetting(q), outcomes[1].recommendedSettings)

(***************************************************************************)
(* C10: the alternatives are in descending score order, none scores above  *)
(* the recommended setting, and no candidate within tolerance that was     *)
(* left out (and is not the recommended triple) scores strictly higher     *)
(* than a returned alternative.                                            *)
(***************************************************************************)
AlternativesRanked ==
  \A i \in ReturnedCalls :
    LET alts == outcomes[i].alternativeSettings
        recommended == outcomes[i].recommendedSettings
        LeftOut == { p \in OtherCandidates(recommended) :
                       \A k \in DOMAIN alts : ~isSameSettings(alts[k], PairSetting(p)) }
    IN /\ \A k \in 1..(Len(alts) - 1) : ScoreOf(alts[k]) >= ScoreOf(alts[k + 1])
       /\ \A k \in DOMAIN alts : ScoreOf(alts[k]) <= ScoreOf(recommended)
       /\ \A p \in LeftOut : \A k \in DOMAIN alts :
            ScoreOf(PairSetting(p)) <= ScoreOf(alts[k])

\* three alternatives of unequal score, and a candidate left out
AlternativesRankedWitness ==
  /\ 1 \in ReturnedCalls
  /\ Len(outcomes[1].alternativeSettings) = 3
  /\ ScoreOf(outcomes[1].alternativeSettings[1]) > ScoreOf(outcomes[1].alternativeSettings[3])
  /\ \E p \in OtherCandidates(outcomes[1].recommendedSettings) :
       \A k \in 1..3 : ~isSameSettings(outcomes[1].alternativeSettings[k], PairSetting(p))

(***************************************************************************)
(* Vocabulary of the properties that compare calls: the i-th call is read  *)
(* from calls[i] (its arguments) and outcomes[i] (its result).             *)
(***************************************************************************)
\* aperture^2 x shutter-speed denominator, in thousandths
Product(s) == s.aperture * s.aperture * s.shutterSpeed

SameEquipment(i, j) ==
  /\ calls[i].camera = calls[j].camera
  /\ calls[i].lens = calls[j].lens

\* unrounded delta of a setting against the lighting condition of the i-th call
DeltaAt(i, s) ==
  calculateExposureValue(s.aperture, s.shutterSpeed, s.iso)
    - 1000 * calls[i].lightingCondition.evValue

(***************************************************************************)
(* C11: Sunny-16 reference case.  With a camera whose only shutter speed   *)
(* is 200, a lens whose only aperture is 16, film ISO 200 and lighting     *)
(* EV 15 the call recommends (16, 200, 200) and the reported exposureDelta *)
(* of that setting is within 0.1 of 0.                                     *)
(***************************************************************************)
Sunny16ReferenceCase ==
  \A i \in DOMAIN outcomes :
    ( /\ calls[i].camera = Sunny16Camera
      /\ calls[i].lens = Sunny16Lens
      /\ calls[i].filmStock.iso = 200
      /\ calls[i].lightingCondition = BrightSun )
    => /\ ~outcomes[i].threw
       /\ isSameSettings(outcomes[i].recommendedSettings,
                         [aperture |-> Tenths(16), shutterSpeed |-> Tenths(200), iso |-> 200])
       /\ Abs(outcomes[i].recommendedSettings.exposureDelta) <= 10

DocumentedFormula ==
  \A i \in ReturnedCalls :
    \A k \in DOMAIN SettingsOf(outcomes[i]) :
      LET s == SettingsOf(outcomes[i])[k]
          \* log2((aperture^2 x 100) / (ISO x (1 / shutterSpeed)))
          documentedEV ==
            ((2 * Log2Micro(s.aperture) + Log2Micro(s.shutterSpeed)) - 3 * Log2Micro(Tenths(1)))
              + (Log2Micro(100) - Log2Micro(s.iso))
      IN /\ s.exposureDelta =
              ToFixed2(documentedEV - 1000 * calls[i].lightingCondition.evValue)
         /\ ( /\ calls[i].lightingCondition = BrightSun
              /\ s.aperture = Tenths(16)
              /\ s.shutterSpeed = Tenths(s.iso) )
            => s.exposureDelta = 0

(***************************************************************************)
(* C14: monotonic ISO effect.  For two successful calls with the same      *)
(* camera, lens and lighting EV and film ISOs i1 < i2, the recommended     *)
(* pair at i2 has an aperture^2 x shutter-denominator product not smaller  *)
(* than the recommended pair at i1.                                        *)
(***************************************************************************)
MonotonicIsoEffect ==
  \A i, j \in ReturnedCalls :
    ( /\ SameEquipment(i, j)
      /\ calls[i].lightingCondition.evValue = calls[j].lightingCondition.evValue
      /\ calls[i].filmStock.iso < calls[j].filmStock.iso )
    => Product(outcomes[i].recommendedSettings) <= Product(outcomes[j].recommendedSettings)

(***************************************************************************)
(* C15: for two successful calls with the same camera, lens and film ISO   *)
(* and target EVs e1 < e2, the recommended pair at e1 has an               *)
(* aperture^2 x shutter-denominator product <= that of the recommended     *)
(* pair at e2.                                                             *)
(***************************************************************************)
MonotonicEvEffect ==
  \A i, j \in ReturnedCalls :
    ( /\ SameEquipment(i, j)
      /\ calls[i].filmStock.iso = calls[j].filmStock.iso
      /\ calls[i].lightingCondition.evValue < calls[j].lightingCondition.evValue )
    => Product(outcomes[i].recommendedSettings) <= Product(outcomes[j].recommendedSettings)

\* the darker scene is metered second and gets a strictly smaller product
MonotonicEvEffectWitness ==
  /\ ReturnedCalls = {1, 2}
  /\ SameEquipment(1, 2)
  /\ calls[1].filmStock.iso = calls[2].filmStock.iso
  /\ calls[2].lightingCondition.evValue < calls[1].lightingCondition.evValue
  /\ Product(outcomes[2].recommendedSettings) < Product(outcomes[1].recommendedSettings)
  /\ Len(calls[1].lens.availableApertures) > 1

(***************************************************************************)
(* C16: every setting of a result (the recommended one and every           *)
(* alternative) carries the ISO of the film stock passed to that call and  *)
(* a defined, numeric exposureDelta.                                       *)
(***************************************************************************)
SettingsCarryFilmIso ==
  \A i \in ReturnedCalls :
    \A k \in DOMAIN SettingsOf(outcomes[i]) :
      /\ SettingsOf(outcomes[i])[k].iso = calls[i].filmStock.iso
      /\ "exposureDelta" \in DOMAIN SettingsOf(outcomes[i])[k]
      /\ SettingsOf(outcomes[i])[k].exposureDelta \in Int

\* two results of one session with three alternatives each, for films of
\* different ISO
SettingsCarryFilmIsoWitness ==
  /\ ReturnedCalls = {1, 2}
  /\ calls[1].filmStock.iso # calls[2].filmStock.iso
  /\ Len(outcomes[1].alternativeSettings) = 3
  /\ Len(outcomes[2].alternativeSettings) = 3
  /\ outcomes[2].alternativeSettings[3].iso = calls[2].filmStock.iso

(***************************************************************************)
(* C17: the result does not depend on the film's latitude or type: two     *)
(* calls with the same camera, lens and lighting and film stocks of the    *)
(* same ISO produce identical outcomes (same recommended setting, same     *)
(* alternatives in the same order), also when a returned delta lies        *)
(* outside the film's latitude.                                            *)
(***************************************************************************)
LatitudeIndependence ==
  \A i, j \in DOMAIN outcomes :
    ( /\ SameEquipment(i, j)
      /\ calls[i].lightingCondition = calls[j].lightingCondition
      /\ calls[i].filmStock.iso = calls[j].filmStock.iso )
    => outcomes[i] = outcomes[j]

\* films of one ISO that differ in latitude; the first result holds a
\* setting outside its film's latitude
LatitudeIndependenceWitness ==
  /\ ReturnedCalls = {1, 2}
  /\ SameEquipment(1, 2)
  /\ calls[1].lightingCondition = calls[2].lightingCondition
  /\ calls[1].filmStock.iso = calls[2].filmStock.iso
  /\ calls[1].filmStock.latitude # calls[2].filmStock.latitude
  /\ \E k \in DOMAIN SettingsOf(outcomes[1]) :
       ~isExposureWithinLatitude(DeltaAt(1, SettingsOf(outcomes[1])[k]), calls[1].filmStock)

(***************************************************************************)
(* C18: the exposureDelta of a returned setting is the unrounded delta     *)
(* rounded to two decimals, while inclusion is decided on the unrounded    *)
(* value: every returned |exposureDelta| is <= 2.00, and a pair whose      *)
(* unrounded |delta| is above 2.0 is not returned, also when it would      *)
(* round to 2.00 (such as 2.004).                                          *)
(***************************************************************************)
\* the pairs of the i-th call: <<shutter-speed index, aperture index>>
PairIndicesAt(i) ==
  (DOMAIN calls[i].camera.availableShutterSpeeds) \X (DOMAIN calls[i].lens.availableApertures)

PairSettingAt(i, p) ==
  [aperture |-> calls[i].lens.availableApertures[p[2]],
   shutterSpeed |-> calls[i].camera.availableShutterSpeeds[p[1]],
   iso |-> calls[i].filmStock.iso]

RoundedAfterFiltering ==
  /\ \A i \in ReturnedCalls :
       \A k \in DOMAIN SettingsOf(outcomes[i]) :
         LET s == SettingsOf(outcomes[i])[k]
         IN /\ Abs(10000 * s.exposureDelta - DeltaAt(i, s)) <= 5000
            /\ Abs(s.exposureDelta) <= 200
            /\ Abs(DeltaAt(i, s)) <= TOLERANCE
  /\ \A i \in DOMAIN outcomes :
       (\A p \in PairIndicesAt(i) : Abs(DeltaAt(i, PairSettingAt(i, p))) > TOLERANCE)
         => outcomes[i].threw

\* one pair 2.004 stops off is left out although it would be reported as
\* 2.00, next to a returned pair 1.996 stops off that is reported as 2.00
RoundedAfterFilteringWitness ==
  /\ 1 \in ReturnedCalls
  /\ \E p \in PairIndicesAt(1) :
       /\ Abs(DeltaAt(1, PairSettingAt(1, p))) = TOLERANCE + 4000
       /\ \A k \in DOMAIN SettingsOf(outcomes[1]) :
            ~isSameSettings(SettingsOf(outcomes[1])[k], PairSettingAt(1, p))
  /\ \E k \in DOMAIN SettingsOf(outcomes[1]) :
       /\ Abs(SettingsOf(outcomes[1])[k].exposureDelta) = 200
       /\ Abs(DeltaAt(1, SettingsOf(outcomes[1])[k])) = TOLERANCE - 4000

(***************************************************************************)
(* C20: ties are broken by enumeration order.  Among the candidates within *)
(* tolerance that share the highest balance score the recommended setting  *)
(* is the first one enumerated: earliest shutter speed of the camera's     *)
(* list as passed to the call, then earliest aperture of the lens's list   *)
(* as passed to the call.  The same rule orders the alternatives: the      *)
(* first alternative is the first-enumerated best candidate other than the *)
(* recommended triple, and of two neighbouring alternatives of equal score *)
(* the earlier one is enumerated earlier.                                  *)
(***************************************************************************)
\* the in-tolerance candidates of the i-th call in enumeration order (shutter
\* speeds outside, apertures inside), each with its balance score
EnumeratedAt(i) ==
  LET shutterSpeeds == calls[i].camera.availableShutterSpeeds
      apertures == calls[i].lens.availableApertures
      Setting(k) == [aperture |-> PairAt(shutterSpeeds, apertures, k).aperture,
                     shutterSpeed |-> PairAt(shutterSpeeds, apertures, k).shutterSpeed,
                     iso |-> calls[i].filmStock.iso]
      WithinTolerance(s) == Abs(DeltaAt(i, s)) <= TOLERANCE
  IN WithScores(SelectSeq([k \in 1..(Len(shutterSpeeds) * Len(apertures)) |-> Setting(k)],
                          WithinTolerance),
                calls[i].lens)

\* the first element of highest score in the nonempty sequence scored
FirstBest(scored) ==
  scored[CHOOSE k \in DOMAIN scored :
           /\ \A j \in DOMAIN scored : scored[j].score <= scored[k].score
           /\ \A j \in 1..(k - 1) : scored[j].score < scored[k].score]

ScoreAt(i, s) == calculateBalanceScore(s, calls[i].lens)

TiesByEnumerationOrder ==
  \A i \in ReturnedCalls :
    LET recommended == outcomes[i].recommendedSettings
        alts == outcomes[i].alternativeSettings
        enumerated == EnumeratedAt(i)
        NotRecommended(c) == ~isSameSettings(c.settings, recommended)
        others == SelectSeq(enumerated, NotRecommended)
    IN /\ isSameSettings(recommended, FirstBest(enumerated).settings)
       /\ alts # <<>> => isSameSettings(alts[1], FirstBest(others).settings)
       /\ \A k \in 1..(Len(alts) - 1) :
            ScoreAt(i, alts[k]) = ScoreAt(i, alts[k + 1]) =>
              \E p, q \in DOMAIN others :
                /\ p < q
                /\ isSameSettings(alts[k], others[p].settings)
                /\ isSameSettings(alts[k + 1], others[q].settings)

\* another triple ties with the recommended one, two different alternatives
\* tie with each other, and the lens's list is not in ascending order
TiesByEnumerationOrderWitness ==
  /\ 1 \in ReturnedCalls
  /\ calls[1].lens.availableApertures # sortAscending(calls[1].lens.availableApertures)
  /\ \E q \in DOMAIN EnumeratedAt(1) :
       /\ ~isSameSettings(EnumeratedAt(1)[q].settings, outcomes[1].recommendedSettings)
       /\ EnumeratedAt(1)[q].score = ScoreAt(1, outcomes[1].recommendedSettings)
  /\ \E k \in 1..(Len(outcomes[1].alternativeSettings) - 1) :
       /\ ScoreAt(1, outcomes[1].alternativeSettings[k])
            = ScoreAt(1, outcomes[1].alternativeSettings[k + 1])
       /\ ~isSameSettings(outcomes[1].alternativeSettings[k],
                          outcomes[1].alternativeSettings[k + 1])

AscendingRank(aperture, apertures) ==
  Cardinality({ j \in DOMAIN apertures : apertures[j] < aperture })

\* shutter weight in halves, from the limits as the documentation states them
ShutterWeight(shutterSpeed) ==
  IF Tenths(30) <= shutterSpeed /\ shutterSpeed <= Tenths(500) THEN 2
  ELSE IF Tenths(15) <= shutterSpeed /\ shutterSpeed <= Tenths(1000) THEN 1
  ELSE 0

BalanceScoreFormula ==
  \A i \in ReturnedCalls :
    LET enumerated == EnumeratedAt(i)
        apertures == calls[i].lens.availableApertures
    IN \A k \in DOMAIN enumerated :
         enumerated[k].score
           = 2 * (10 - Abs(AscendingRank(enumerated[k].settings.aperture, apertures)
                             - (Len(apertures) \div 2)))
               + ShutterWeight(enumerated[k].settings.shutterSpeed)

\* shutter speeds of the candidates of the i-th call
CandidateShutterSpeedsAt(i) ==
  LET enumerated == EnumeratedAt(i)
  IN { enumerated[k].settings.shutterSpeed : k \in DOMAIN enumerated }

\* the candidates of the calls made so far have had a shutter speed on each
\* of the four limits, one below the acceptable band and a fractional one
BalanceScoreFormulaWitness ==
  {Tenths(15), Tenths(30), Tenths(500), Tenths(1000), Tenths(8), 5}
    \subseteq UNION { CandidateShutterSpeedsAt(i) : i \in ReturnedCalls }

(***************************************************************************)
(* C22: solver failures never escape the context.  calculateExposure       *)
(* returns null, without throwing and without changing the application     *)
(* state, whenever one of the four selections is missing or the solver     *)
(* raises (missing input or no valid combination), and returns the         *)
(* solver's result unchanged otherwise.                                    *)
(***************************************************************************)
\* the most recent call had a selection missing
LastCallIncomplete ==
  /\ calls # <<>>
  /\ \/ calls[1].camera = Null
     \/ calls[1].lens = Null
     \/ calls[1].filmStock = Null
     \/ calls[1].lightingCondition = Null

\* what the solver does on the selections of the most recent call
LastCallSolved ==
  calculateExposureSettings(calls[1].camera, calls[1].lens, calls[1].filmStock,
                            calls[1].lightingCondition)

SolverFailuresContained ==
  /\ [](calls # <<>> =>
          IF LastCallIncomplete \/ LastCallSolved.threw
            THEN exposureResult = Null
            ELSE exposureResult = LastCallSolved)
  /\ [][exposureResult' = Null =>
          UNCHANGED <<camera, lens, filmStock, lightingCondition, shotLogs, username>>]_calls

\* the solver has raised in an earlier call, and the most recent call, made
\* with a selection missing, returned null as well
SolverFailuresContainedWitness ==
  /\ "Error calculating exposure:" \in consoleErrors
  /\ LastCallIncomplete
  /\ exposureResult = Null

(***************************************************************************)
(* C26: switching user takes effect.  After handleSwitchUser(newUsername)  *)
(* has run, the username of AppContent, of the context and of local        *)
(* storage is newUsername, the selections and the shot logs are cleared,   *)
(* the current screen is 'settings', canShowGenerated is false and the     *)
(* switch-user dialog is closed.                                           *)
(***************************************************************************)
SwitchTakesEffect ==
  [][switches' # switches =>
       LET newUsername == switches'[Len(switches')]
       IN /\ appUsername' = newUsername
          /\ username' = newUsername
          /\ storedUsername' = newUsername
          /\ camera' = Null
          /\ lens' = Null
          /\ filmStock' = Null
          /\ lightingCondition' = Null
          /\ shotLogs' = <<>>
          /\ currentScreen' = "settings"
          /\ canShowGenerated' = FALSE
          /\ showUserSwitchModal' = FALSE]_vars

(***************************************************************************)
(* C27: whenever the current screen is the results screen ('generated'),   *)
(* canShowGenerated is true and the camera, the lens, the film stock and   *)
(* the lighting condition are all selected: the Results tab cannot be      *)
(* entered before all four selections have been made.                      *)
(***************************************************************************)
ResultsScreenGuarded ==
  currentScreen = "generated" =>
    /\ canShowGenerated
    /\ isReadyToCalculate(camera, lens, filmStock, lightingCondition)

\* the results screen was entered a second time, through its tab, after the
\* shot-log screen had been visited
ResultsScreenGuardedWitness ==
  /\ currentScreen = "generated"
  /\ loads # <<>>
  /\ exposureResult # Null

(***************************************************************************)
(* C23: an optimistic insertion is reverted only for the log that failed.  *)
(* Once every addShotLog call and every loadShotLogs query has settled,    *)
(* the application's shot-log list holds every log whose insert succeeded  *)
(* and none whose insert failed; and a failing addShotLog never removes a  *)
(* log added by a call that started after it.                              *)
(***************************************************************************)
\* no request and no query is in flight
Settled ==
  /\ \A k \in DOMAIN requests : requests[k].status # "pending"
  /\ \A k \in DOMAIN loads : ~loads[k].pending

\* the logs of the list, named by their timestamps
Listed(logs) == { logs[j].timestamp : j \in DOMAIN logs }

RevertOnlyFailedLog ==
  /\ [](Settled =>
          \A k \in DOMAIN requests :
            requests[k].op = "add" =>
              (requests[k].shotLog.timestamp \in Listed(shotLogs)
                 <=> requests[k].status = "done"))
  /\ [][\A k \in DOMAIN requests :
          (/\ requests[k].op = "add"
           /\ requests[k].status = "pending"
           /\ requests'[k].status = "failed") =>
            \A j \in (k + 1)..Len(requests) :
              (requests[j].op = "add" /\ requests[j].shotLog.timestamp \in Listed(shotLogs))
                => requests[j].shotLog.timestamp \in Listed(shotLogs')]_vars

(***************************************************************************)
(* C24: a rating change is persisted.  If addShotLog for a log and a       *)
(* later updateShotLog for that log, taken from the list with a new        *)
(* rating, have both completed without error, the table holds the log      *)
(* with the new rating and the list shows the same rating, also when the   *)
(* rating was changed before the list was reloaded (the log then has its   *)
(* temp- id).                                                              *)
(***************************************************************************)
\* the a-th call added a log and the u-th call, made later, rated that log;
\* both completed without error
AddedThenRated(a, u) ==
  /\ a < u
  /\ requests[a].op = "add"
  /\ requests[a].status = "done"
  /\ requests[u].op = "update"
  /\ requests[u].status = "done"
  /\ requests[u].shotLog.timestamp = requests[a].shotLog.timestamp

RatingPersisted ==
  Settled =>
    \A a, u \in DOMAIN requests :
      AddedThenRated(a, u) =>
        /\ \E r \in database :
             /\ r.username = requests[u].username
             /\ r.timestamp = requests[u].shotLog.timestamp
             /\ r.rating = requests[u].shotLog.rating
        /\ \A j \in DOMAIN shotLogs :
             shotLogs[j].timestamp = requests[u].shotLog.timestamp
               => shotLogs[j].rating = requests[u].shotLog.rating

(***************************************************************************)
(* C25: persistence is scoped by username.  loadShotLogs(u) returns only   *)
(* rows whose username is u, in descending order of timestamp, and         *)
(* updateShotLog(u, log) and deleteShotLog(u, id) change or remove a row   *)
(* only if its id and its username both match, so no operation issued      *)
(* under u alters or removes a shot log stored under another username.     *)
(***************************************************************************)
\* the rows stored under another username than the caller's
RowsOfOthers(rows) == { r \in rows : r.username # username }

ScopedByUsername ==
  /\ [][RowsOfOthers(database') = RowsOfOthers(database)]_vars
  /\ [][shotLogs' # shotLogs =>
          /\ { shotLogs'[k].id : k \in DOMAIN shotLogs' }
               = { r.id : r \in database \ RowsOfOthers(database) }
          /\ \A j, k \in DOMAIN shotLogs' :
               j < k => shotLogs'[j].timestamp >= shotLogs'[k].timestamp]_vars

\* the caller has loaded two logs of its own, the later one first, next to
\* a row of another user that it has tried to update and to delete
ScopedByUsernameWitness ==
  /\ Len(shotLogs) = 2
  /\ shotLogs[1].timestamp > shotLogs[2].timestamp
  /\ RowsOfOthers(database) # {}
  /\ \E r \in database : r.username = username /\ r.rating \in Ratings

(***************************************************************************)
(* C28: submitting a well-formed username always ends with that username   *)
(* being set (onUsernameSet called with it), whether or not it existed,    *)
(* as long as the store answers; also when two clients submit the same     *)
(* new username at the same time, each having been told that it does not   *)
(* exist before either creates it.  No submission ends in the error        *)
(* message.                                                                *)
(***************************************************************************)
SubmissionSetsUsername ==
  \A k \in DOMAIN submissions : submissions[k].stage # "error"

(***************************************************************************)
(* C29: editing the aperture or the shutter speed in the log form changes  *)
(* only the editable copy; the picked setting and the solver's             *)
(* recommended and alternative settings stay as they were.  So the         *)
(* originalSettings of a saved shot log is a setting the solver returned,  *)
(* its selectedSettings has an aperture of the selected lens and a         *)
(* shutter speed of the selected camera, and the exposureDelta of          *)
(* selectedSettings is the delta of its aperture, shutter speed and ISO    *)
(* against the EV of the selected lighting, rounded to two decimals.       *)
(***************************************************************************)
\* the step edits the form: the editable copy changes while the form stays
\* open, and not into a fresh copy of a picked card
EditStep ==
  /\ editableSettings # Null
  /\ editableSettings' # Null
  /\ editableSettings' # editableSettings
  /\ editableSettings' # selectedSettings'

\* the delta of a setting against the selected lighting, to two decimals
RoundedDeltaOf(settings) ==
  ToFixed2(calculateExposureValue(settings.aperture, settings.shutterSpeed, settings.iso)
             - 1000 * lightingCondition.evValue)

LogFormEditsCopyOnly ==
  /\ [][EditStep =>
          /\ selectedSettings' = selectedSettings
          /\ exposureResult' = exposureResult]_vars
  /\ [](\A k \in DOMAIN requests :
          LET shotLog == requests[k].shotLog
          IN /\ shotLog.originalSettings \in
                  Range(<<shotLog.recommendedSettings>> \o shotLog.alternativeSettings)
             /\ shotLog.originalSettings \in Range(SettingsOf(exposureResult))
             /\ shotLog.selectedSettings.aperture \in Range(lens.availableApertures)
             /\ shotLog.selectedSettings.shutterSpeed \in Range(camera.availableShutterSpeeds)
             /\ shotLog.selectedSettings.iso = filmStock.iso
             /\ shotLog.selectedSettings.exposureDelta = RoundedDeltaOf(shotLog.selectedSettings))
  /\ [](\A r \in database :
          \E k \in DOMAIN requests :
            /\ requests[k].status = "done"
            /\ r.originalSettings = requests[k].shotLog.originalSettings
            /\ r.selectedSettings = requests[k].shotLog.selectedSettings)

\* a log was saved whose aperture and shutter speed were both edited in the
\* form, away from the setting that had been picked
LogFormEditsCopyOnlyWitness ==
  \E r \in database :
    /\ r.selectedSettings.aperture # r.originalSettings.aperture
    /\ r.selectedSettings.shutterSpeed # r.originalSettings.shutterSpeed
    /\ r.selectedSettings.exposureDelta # r.originalSettings.exposureDelta
    /\ r.originalSettings # exposureResult.recommendedSettings
====
